---- MODULE Spec2Model ----
(***************************************************************************)
(* A model of the IBM Model 1 / diagonal-prior word aligner (fast_align):  *)
(* the EM driver of main(), the translation table it trains, the Viterbi   *)
(* set, the alignment output and the parameter dump.                       *)
(*                                                                         *)
(* Numbers.  The program computes in IEEE doubles.  The model computes in  *)
(* exact arithmetic on values (n / d) * 10^(-9 e), n and d coprime         *)
(* integers and e an integer, so that the 1e-9 floor of TTable::prob is    *)
(* the value 1 * 10^(-9) and never has to be multiplied out.  d = 0 holds  *)
(* the two non-finite doubles the program can produce: n = 1 is +inf and   *)
(* n = 0 is NaN.                                                           *)
(***************************************************************************)
EXTENDS Integers, Sequences, FiniteSets, Bags, TLC

(***************************************************************************)
(* Bounds of the model.                                                    *)
(***************************************************************************)
MaxLines == 2
MaxIter == 3
\* with the diagonal prior or variational Bayes the entries of the table
\* outgrow the model checker's integers in a third iteration
MaxIterPrior == 2

(***************************************************************************)
(* Arithmetic on doubles.                                                  *)
(***************************************************************************)
Abs(x) == IF x < 0 THEN -x ELSE x

RECURSIVE GCD(_, _)
GCD(a, b) == IF b = 0 THEN a ELSE GCD(b, a % b)

NaN == [n |-> 0, d |-> 0, e |-> 0]
Inf == [n |-> 1, d |-> 0, e |-> 0]
Zero == [n |-> 0, d |-> 1, e |-> 0]
One == [n |-> 1, d |-> 1, e |-> 0]

IsNaN(v) == v.d = 0 /\ v.n = 0
IsInf(v) == v.d = 0 /\ v.n # 0
IsZero(v) == v.d # 0 /\ v.n = 0

\* the double n / d * 10^(-9 e), in lowest terms (d > 0)
Norm(n, d, e) ==
  IF n = 0 THEN Zero
  ELSE LET g == GCD(Abs(n), d) IN [n |-> n \div g, d |-> d \div g, e |-> e]

Rat(n, d) == Norm(n, d, 0)

\* 10^(9 k), the scale between exponents e and e + k
RECURSIVE FloorScale(_)
FloorScale(k) == IF k = 0 THEN 1 ELSE 1000000000 * FloorScale(k - 1)

\* v rewritten with the smaller exponent e (same value, not in lowest terms)
Rescale(v, e) == [n |-> v.n, d |-> v.d * FloorScale(v.e - e), e |-> e]

Mul(a, b) ==
  IF IsNaN(a) \/ IsNaN(b) THEN NaN
  ELSE IF IsInf(a) \/ IsInf(b)
       THEN (IF IsZero(a) \/ IsZero(b) THEN NaN ELSE Inf)
  ELSE IF IsZero(a) \/ IsZero(b) THEN Zero
  ELSE LET g1 == GCD(Abs(a.n), b.d)
           g2 == GCD(Abs(b.n), a.d)
       IN  [n |-> (a.n \div g1) * (b.n \div g2),
            d |-> (a.d \div g2) * (b.d \div g1),
            e |-> a.e + b.e]

\* a / b for b >= 0 (the program never divides by a negative number)
Div(a, b) ==
  IF IsNaN(a) \/ IsNaN(b) THEN NaN
  ELSE IF IsInf(b) THEN (IF IsInf(a) THEN NaN ELSE Zero)
  ELSE IF IsZero(b) THEN (IF IsZero(a) THEN NaN ELSE Inf)
  ELSE Mul(a, [n |-> b.d, d |-> b.n, e |-> -b.e])

Add(a, b) ==
  IF IsNaN(a) \/ IsNaN(b) THEN NaN
  ELSE IF IsInf(a) \/ IsInf(b) THEN Inf
  ELSE IF IsZero(a) THEN b
  ELSE IF IsZero(b) THEN a
  ELSE LET e == IF a.e < b.e THEN a.e ELSE b.e
           x == IF a.e = e THEN a ELSE Rescale(a, e)
           y == IF b.e = e THEN b ELSE Rescale(b, e)
           g == GCD(x.d, y.d)
       IN  Norm(x.n * (y.d \div g) + y.n * (x.d \div g), (x.d \div g) * y.d, e)

Neg(a) == [n |-> -a.n, d |-> a.d, e |-> a.e]

\* a > b as the double comparison decides it: false when either is NaN
Gt(a, b) ==
  IF IsNaN(a) \/ IsNaN(b) THEN FALSE
  ELSE IF IsInf(a) THEN ~IsInf(b)
  ELSE IF IsInf(b) THEN FALSE
  ELSE IF a.n <= 0 /\ b.n >= 0 THEN FALSE
  ELSE IF a.n >= 0 /\ b.n <= 0 THEN TRUE
  ELSE Add(a, Neg(b)).n > 0

\* fabs(a - b)
AbsDiff(a, b) == LET x == Add(a, Neg(b)) IN [x EXCEPT !.n = Abs(x.n)]

\* exp(-y) for y >= 0.  exp has no exact value in the model's arithmetic: it
\* is 1 / (1 + y + y^2/2), the reciprocal of exp's series cut after three
\* terms, which is exact at y = 0 (exp(-0.0) = 1.0) and strictly decreasing.
ExpNeg(y) == Div(One, Add(One, Add(y, Div(Mul(y, y), Rat(2, 1)))))

\* pow(10.0, x) for an integer x <= 0: below 10^-323 a double underflows to 0
RECURSIVE TenTo(_)
TenTo(k) == IF k = 0 THEN 1 ELSE 10 * TenTo(k - 1)

Pow10(x) ==
  IF x = 0 THEN One
  ELSE IF x < -323 THEN Zero
  ELSE Rat(1, TenTo(-x))

(***************************************************************************)
(* Words, sentences and the corpus file.  TD::Convert interns a token to a *)
(* WordID one to one, so a word is modelled by its token.                  *)
(***************************************************************************)
kNULL == "<eps>"

\* the WordID 0 that max_i starts from; TD gives it to no corpus token
WordID0 == "<0>"

\* the order in which the maps of a table are walked
WordOrder == <<kNULL, "a", "b", "x", "y">>

Line(l, r) == [left |-> l, right |-> r]

\* the lines a corpus file is made of, "left ||| right"
LinePool ==
  { Line(<<"a", "b">>, <<"x", "y">>),
    Line(<<"b">>, <<"y">>),
    Line(<<"a", "b">>, <<"x">>),
    Line(<<"a">>, <<"x">>),
    Line(<<"a", "b">>, <<>>),
    Line(<<>>, <<"x">>) }

Corpora == UNION { [1..n -> LinePool] : n \in 1..MaxLines }

\* CorpusTools::ReadLine: the two sides of a line as WordID vectors
ReadLine(line) == [src |-> line.left, trg |-> line.right]

(***************************************************************************)
(* The command line (po::variables_map) and the constants main draws       *)
(* from it.                                                                *)
(***************************************************************************)
\* the alignment distribution options: favor_diagonal, diagonal_tension,
\* prob_align_null
PriorOptions ==
  { [favor_diagonal |-> FALSE, diagonal_tension |-> Rat(4, 1), prob_align_null |-> Rat(2, 25)],
    [favor_diagonal |-> TRUE, diagonal_tension |-> Rat(0, 1), prob_align_null |-> Rat(2, 25)],
    [favor_diagonal |-> TRUE, diagonal_tension |-> Rat(4, 1), prob_align_null |-> Rat(2, 25)],
    [favor_diagonal |-> TRUE, diagonal_tension |-> Rat(0, 1), prob_align_null |-> Rat(1, 1)] }

\* variational_bayes and alpha
BayesOptions ==
  { [variational_bayes |-> FALSE, alpha |-> Rat(1, 100)],
    [variational_bayes |-> TRUE, alpha |-> Rat(0, 1)],
    [variational_bayes |-> TRUE, alpha |-> Rat(1, 1)] }

\* output_parameters, beam_threshold, hide_training_alignments, no_add_viterbi
OutputOptions ==
  { [output_parameters |-> FALSE, beam_threshold |-> -4,
     hide_training_alignments |-> h, no_add_viterbi |-> v] : h, v \in BOOLEAN }
  \cup
  { [output_parameters |-> TRUE, beam_threshold |-> t,
     hide_training_alignments |-> h, no_add_viterbi |-> v] :
       t \in {-10000, -4, 0}, h, v \in BOOLEAN }

Options(r, k, n, p, b, o) ==
  [reverse |-> r, iterations |-> k, no_null_word |-> n,
   favor_diagonal |-> p.favor_diagonal, diagonal_tension |-> p.diagonal_tension,
   prob_align_null |-> p.prob_align_null,
   variational_bayes |-> b.variational_bayes, alpha |-> b.alpha,
   output_parameters |-> o.output_parameters, beam_threshold |-> o.beam_threshold,
   hide_training_alignments |-> o.hide_training_alignments,
   no_add_viterbi |-> o.no_add_viterbi]

CommandLines ==
  { Options(x[1], x[2], x[3], x[4], x[5], x[6]) :
      x \in { y \in BOOLEAN \X (1..MaxIter) \X BOOLEAN
                    \X PriorOptions \X BayesOptions \X OutputOptions :
                 y[4].favor_diagonal \/ y[5].variational_bayes => y[2] <= MaxIterPrior } }

ITERATIONS(c) == c.iterations
BEAM_THRESHOLD(c) == Pow10(c.beam_threshold)
use_null(c) == ~c.no_null_word
add_viterbi(c) == ~c.no_add_viterbi
write_alignments(c) == ~c.output_parameters
prob_align_not_null(c) == Add(One, Neg(c.prob_align_null))

(***************************************************************************)
(* TTable: the probabilities prob reads (ttable) and the expected counts   *)
(* Increment accumulates (counts), both maps from <<e, f>> to a double.    *)
(* The table stays empty until the first normalization: Increment does not *)
(* touch what prob reads.                                                  *)
(***************************************************************************)
EmptyTable == << >>

Floor == [n |-> 1, d |-> 1, e |-> 1]

prob(T, e, f) == IF <<e, f>> \in DOMAIN T THEN T[<<e, f>>] ELSE Floor

Increment(C, e, f, x) ==
  IF <<e, f>> \in DOMAIN C
  THEN [C EXCEPT ![<<e, f>>] = Add(@, x)]
  ELSE C @@ (<<e, f>> :> x)

\* the entries of source word e
Cpd(T, e) == { k \in DOMAIN T : k[1] = e }

RECURSIVE SumOver(_, _)
SumOver(T, keys) ==
  IF keys = {} THEN Zero
  ELSE LET k == CHOOSE x \in keys : TRUE
       IN  Add(T[k], SumOver(T, keys \ {k}))

\* an entry divided by the total of its source word, when that is > 0
Share(x, tot) == IF Gt(tot, Zero) THEN Div(x, tot) ELSE x

Normalize(C) == [k \in DOMAIN C |-> Share(C[k], SumOver(C, Cpd(C, k[1])))]

\* exp(digamma(x)) for x >= 1: x - 1/2, its value up to O(1/x)
ExpDigamma(x) == Add(x, Neg(Rat(1, 2)))

NormalizeVB(C, alpha) ==
  [k \in DOMAIN C |->
     Div(ExpDigamma(Add(C[k], alpha)),
         ExpDigamma(Add(SumOver(C, Cpd(C, k[1])),
                        Mul(alpha, Rat(Cardinality(Cpd(C, k[1])), 1)))))]

(***************************************************************************)
(* The E-step of one target position j (zero-based) of a sentence pair.    *)
(***************************************************************************)
\* buf[1] + ... + buf[k]
RECURSIVE SumTo(_, _)
SumTo(buf, k) == IF k = 0 THEN Zero ELSE Add(SumTo(buf, k - 1), buf[k])

\* unnormed_a_i.resize(src.size()) when it is shorter: new slots are 0.0
Resize(buf, size) ==
  IF size > Len(buf)
  THEN [ta \in 1..size |-> IF ta <= Len(buf) THEN buf[ta] ELSE Zero]
  ELSE buf

\* unnormed_a_i after the loop that fills its first src.size() slots
DiagonalWeights(c, buf, srclen, j, trglen) ==
  [ta \in 1..Len(buf) |->
     IF ta <= srclen
     THEN ExpNeg(Mul(AbsDiff(Rat(ta - 1, srclen), Rat(j, trglen)), c.diagonal_tension))
     ELSE buf[ta]]

\* az summed over the whole buffer, slots beyond src.size() included
AzWholeBuffer(c, buf, srclen) == Div(SumTo(buf, Len(buf)), prob_align_not_null(c))

\* az: the sum of the weights divided by prob_align_not_null
Az(c, buf, srclen) == Div(SumTo(buf, srclen), prob_align_not_null(c))

\* prob_a_i as the loop over i = 1 .. src.size() uses it
ProbA(c, buf, srclen, i) ==
  IF c.favor_diagonal
  THEN Div(buf[i], Az(c, buf, srclen))
  ELSE Rat(1, srclen + (IF use_null(c) THEN 1 ELSE 0))

\* prob_a_i as probs[0] uses it
ProbANull(c, srclen) ==
  IF c.favor_diagonal
  THEN c.prob_align_null
  ELSE Rat(1, srclen + (IF use_null(c) THEN 1 ELSE 0))

\* probs[0 .. src.size()]; probs[0] stays 0.0 without the NULL word
Probs(c, T, buf, src, f_j) ==
  [i \in 0..Len(src) |->
     IF i = 0
     THEN (IF use_null(c) THEN Mul(prob(T, kNULL, f_j), ProbANull(c, Len(src))) ELSE Zero)
     ELSE Mul(prob(T, src[i], f_j), ProbA(c, buf, Len(src), i))]

\* sum: probs[0] (with the NULL word) and then probs[1 .. src.size()]
RECURSIVE SumProbs(_, _)
SumProbs(probs, k) == IF k = 0 THEN probs[0] ELSE Add(SumProbs(probs, k - 1), probs[k])

\* the loop that finds max_i, max_index and max_p
RECURSIVE MaxScan(_, _, _, _)
MaxScan(probs, src, i, best) ==
  IF i > Len(src) THEN best
  ELSE MaxScan(probs, src, i + 1,
               IF Gt(probs[i], best.max_p)
               THEN [max_i |-> src[i], max_index |-> i, max_p |-> probs[i]]
               ELSE best)

\* the scan with >= in place of >: the last of equal candidates wins
RECURSIVE MaxScanLast(_, _, _, _)
MaxScanLast(probs, src, i, best) ==
  IF i > Len(src) THEN best
  ELSE MaxScanLast(probs, src, i + 1,
                   IF ~Gt(best.max_p, probs[i])
                   THEN [max_i |-> src[i], max_index |-> i, max_p |-> probs[i]]
                   ELSE best)

ViterbiLast(c, probs, src) ==
  MaxScanLast(probs, src, 1,
              IF use_null(c)
              THEN [max_i |-> kNULL, max_index |-> 0, max_p |-> probs[0]]
              ELSE [max_i |-> WordID0, max_index |-> -1, max_p |-> Neg(One)])

Viterbi(c, probs, src) ==
  MaxScan(probs, src, 1,
          IF use_null(c)
          THEN [max_i |-> kNULL, max_index |-> 0, max_p |-> probs[0]]
          ELSE [max_i |-> WordID0, max_index |-> -1, max_p |-> Neg(One)])

\* what cout receives within a line: alignment tokens and the spaces between
\* the token written source index first whatever the mode
TokenUnswapped(c, max_index, j) == [t |-> "i-j", i |-> max_index - 1, j |-> j]

Token(c, max_index, j) ==
  IF c.reverse
  THEN [t |-> "i-j", i |-> j, j |-> max_index - 1]
  ELSE [t |-> "i-j", i |-> max_index - 1, j |-> j]

Space == [t |-> " "]

\* the Increment calls of a non-final iteration, i = 1 .. src.size()
RECURSIVE IncrementAll(_, _, _, _, _, _)
IncrementAll(C, probs, sum, src, f_j, i) ==
  IF i > Len(src) THEN C
  ELSE IncrementAll(Increment(C, src[i], f_j, Div(probs[i], sum)),
                    probs, sum, src, f_j, i + 1)

\* likelihood += log(sum).  A log has no exact value in the model's arithmetic:
\* likelihood is held as the bag of the numbers whose logs were added to it,
\* log(1) = 0 left out.
AddLog(lik, sum) == IF sum = One THEN lik ELSE lik (+) SetToBag({sum})

\* One pass of the loop over j.  st holds what the loop changes: counts,
\* s2t_viterbi, likelihood, unnormed_a_i, the text of the output line and
\* first_al.

\* the final iteration's branch without the test of add_viterbi and
\* write_alignments
RecordAlways(c, st, best, f_j, j) ==
  IF ~c.hide_training_alignments /\ write_alignments(c) /\ best.max_index > 0
  THEN [st EXCEPT
          !.s2t_viterbi = @ \cup {<<best.max_i, f_j>>},
          !.text = @ \o (IF st.first_al THEN <<>> ELSE <<Space>>)
                     \o <<Token(c, best.max_index, j)>>,
          !.first_al = FALSE]
  ELSE [st EXCEPT !.s2t_viterbi = @ \cup {<<best.max_i, f_j>>}]

\* the final iteration's branch with a space written before every token, the
\* first one too
RecordSpaced(c, st, best, f_j, j) ==
  IF add_viterbi(c) \/ write_alignments(c)
  THEN IF ~c.hide_training_alignments /\ write_alignments(c) /\ best.max_index > 0
       THEN [st EXCEPT
               !.s2t_viterbi = @ \cup {<<best.max_i, f_j>>},
               !.text = @ \o <<Space>> \o <<Token(c, best.max_index, j)>>,
               !.first_al = FALSE]
       ELSE [st EXCEPT !.s2t_viterbi = @ \cup {<<best.max_i, f_j>>}]
  ELSE st

\* the final iteration's branch: the Viterbi point and its token
Record(c, st, best, f_j, j) ==
  IF add_viterbi(c) \/ write_alignments(c)
  THEN IF ~c.hide_training_alignments /\ write_alignments(c) /\ best.max_index > 0
       THEN [st EXCEPT
               !.s2t_viterbi = @ \cup {<<best.max_i, f_j>>},
               !.text = @ \o (IF st.first_al THEN <<>> ELSE <<Space>>)
                          \o <<Token(c, best.max_index, j)>>,
               !.first_al = FALSE]
       ELSE [st EXCEPT !.s2t_viterbi = @ \cup {<<best.max_i, f_j>>}]
  ELSE st

\* the other iterations' branch: the expected counts
Accumulate(c, st, probs, sum, src, f_j) ==
  [st EXCEPT
     !.counts = IncrementAll(
                  IF use_null(c)
                  THEN Increment(@, kNULL, f_j, Div(probs[0], sum))
                  ELSE @,
                  probs, sum, src, f_j, 1)]

\* the final iteration incrementing the counts as the other iterations do
PosteriorIncrementing(c, final_iteration, src, f_j, j, st, probs, sum) ==
  IF final_iteration
  THEN Accumulate(c, Record(c, [st EXCEPT !.likelihood = AddLog(@, sum)],
                            Viterbi(c, probs, src), f_j, j),
                  probs, sum, src, f_j)
  ELSE Accumulate(c, [st EXCEPT !.likelihood = AddLog(@, sum)], probs, sum, src, f_j)

Posterior(c, final_iteration, src, f_j, j, st, probs, sum) ==
  IF final_iteration
  THEN Record(c, [st EXCEPT !.likelihood = AddLog(@, sum)],
              Viterbi(c, probs, src), f_j, j)
  ELSE Accumulate(c, [st EXCEPT !.likelihood = AddLog(@, sum)], probs, sum, src, f_j)

WithProbs(c, final_iteration, src, f_j, j, st, probs) ==
  Posterior(c, final_iteration, src, f_j, j, st, probs, SumProbs(probs, Len(src)))

WithWeights(c, T, final_iteration, src, f_j, j, st, buf) ==
  WithProbs(c, final_iteration, src, f_j, j, [st EXCEPT !.unnormed_a_i = buf],
            Probs(c, T, buf, src, f_j))

Position(c, T, final_iteration, src, trg, st, j) ==
  WithWeights(c, T, final_iteration, src, trg[j + 1], j, st,
              IF c.favor_diagonal
              THEN DiagonalWeights(c, st.unnormed_a_i, Len(src), j, Len(trg))
              ELSE st.unnormed_a_i)

RECURSIVE Positions(_, _, _, _, _, _, _)
Positions(c, T, final_iteration, src, trg, st, j) ==
  IF j >= Len(trg) THEN st
  ELSE Positions(c, T, final_iteration, src, trg,
                 Position(c, T, final_iteration, src, trg, st, j), j + 1)

\* src and trg of a corpus line, after the swap of reverse mode
Sides(c, line) ==
  IF c.reverse
  THEN [src |-> ReadLine(line).trg, trg |-> ReadLine(line).src]
  ELSE ReadLine(line)

\* a check of the target side alone
BadLineTargetOnly(c, line) == Len(Sides(c, line).trg) = 0

BadLine(c, line) == Len(Sides(c, line).src) = 0 \/ Len(Sides(c, line).trg) = 0

\* The body of the while loop for a line with two non-empty sides.  s holds
\* counts, s2t_viterbi, likelihood, unnormed_a_i, tot_len_ratio, denom, cout.
AfterPositions(c, iter, s, src, trg, st) ==
  [counts |-> st.counts,
   s2t_viterbi |-> st.s2t_viterbi,
   likelihood |-> st.likelihood,
   unnormed_a_i |-> st.unnormed_a_i,
   tot_len_ratio |-> IF iter = 0
                     THEN Add(s.tot_len_ratio, Div(Rat(Len(trg), 1), Rat(Len(src), 1)))
                     ELSE s.tot_len_ratio,
   denom |-> s.denom + Len(trg),
   cout |-> IF write_alignments(c) /\ iter = ITERATIONS(c) - 1
               /\ ~c.hide_training_alignments
            THEN Append(s.cout, st.text)
            ELSE s.cout]

SentencePair(c, T, iter, s, src, trg) ==
  AfterPositions(c, iter, s, src, trg,
    Positions(c, T, iter = ITERATIONS(c) - 1, src, trg,
              [counts |-> s.counts, s2t_viterbi |-> s.s2t_viterbi,
               likelihood |-> s.likelihood,
               unnormed_a_i |-> Resize(s.unnormed_a_i, Len(src)),
               text |-> <<>>, first_al |-> TRUE], 0))

Sentence(c, T, iter, s, line) ==
  SentencePair(c, T, iter, s, Sides(c, line).src, Sides(c, line).trg)

(***************************************************************************)
(* The test set: after training, the log probability and, when alignments  *)
(* are written, the alignment of every line of the test set file.          *)
(***************************************************************************)
\* the test sets given with --testset to a run on corpus corp: none (<<>>) or
\* the lines of the corpus itself.  A pair unseen in training would add the
\* 1e-9 floor to entries of the table in one sum, which the exact numbers of
\* this model cannot hold within the model checker's integers.
TestSets(corp) == {<<>>, corp}

\* the loop that finds a_j and max_pat
RECURSIVE ScoreScan(_, _, _, _)
ScoreScan(probs, srclen, i, best) ==
  IF i > srclen THEN best
  ELSE ScoreScan(probs, srclen, i + 1,
                 IF Gt(probs[i], best.max_pat)
                 THEN [a_j |-> i, max_pat |-> probs[i]]
                 ELSE best)

\* a_j of a target position: 0 and max_pat = 0 (the NULL word's pat with the
\* NULL word) to begin with
BestAlignment(c, probs, srclen) ==
  ScoreScan(probs, srclen, 1,
            [a_j |-> 0, max_pat |-> IF use_null(c) THEN probs[0] ELSE Zero]).a_j

\* what cout receives for a target position: a space and the token
ScoreToken(c, a_j, j) ==
  IF write_alignments(c) /\ a_j > 0 THEN <<Space, Token(c, a_j, j)>> ELSE <<>>

ScoreWithProbs(c, src, j, st, probs) ==
  [st EXCEPT !.log = AddLog(@, SumProbs(probs, Len(src))),
             !.text = @ \o ScoreToken(c, BestAlignment(c, probs, Len(src)), j)]

ScoreWithWeights(c, T, src, f_j, j, st, buf) ==
  ScoreWithProbs(c, src, j, [st EXCEPT !.unnormed_a_i = buf], Probs(c, T, buf, src, f_j))

ScorePosition(c, T, src, trg, st, j) ==
  ScoreWithWeights(c, T, src, trg[j + 1], j, st,
                   IF c.favor_diagonal
                   THEN DiagonalWeights(c, st.unnormed_a_i, Len(src), j, Len(trg))
                   ELSE st.unnormed_a_i)

RECURSIVE ScorePositions(_, _, _, _, _, _)
ScorePositions(c, T, src, trg, st, j) ==
  IF j >= Len(trg) THEN st
  ELSE ScorePositions(c, T, src, trg, ScorePosition(c, T, src, trg, st, j), j + 1)

\* log_prob as written: Md::log_poisson(k, lambda) plus the logs of the sums
LogProb(m, src, trg, log) ==
  [t |-> "log_prob",
   log_poisson |-> [k |-> Len(trg),
                    lambda |-> Add(Rat(1, 20), Mul(Rat(Len(src), 1), m))],
   log |-> log]

\* the line written for a line of the test set: "src ||| trg |||", the
\* tokens, " ||| log_prob"
ScoredLine(m, line, src, trg, st) ==
  [unnormed_a_i |-> st.unnormed_a_i,
   out |-> <<[t |-> "test", src |-> ReadLine(line).src, trg |-> ReadLine(line).trg]>>
           \o st.text \o <<LogProb(m, src, trg, st.log)>>]

ScorePair(c, T, m, buf, line, src, trg) ==
  ScoredLine(m, line, src, trg,
             ScorePositions(c, T, src, trg,
                            [unnormed_a_i |-> Resize(buf, Len(src)),
                             text |-> <<>>, log |-> EmptyBag], 0))

ScoreLine(c, T, m, buf, line) ==
  ScorePair(c, T, m, buf, line, Sides(c, line).src, Sides(c, line).trg)

AfterLine(sc, scored) ==
  [unnormed_a_i |-> scored.unnormed_a_i, cout |-> Append(sc.cout, scored.out)]

\* the lines written for the lines 1 .. k of the test set, and the buffer
RECURSIVE Score(_, _, _, _, _, _)
Score(c, T, m, buf, tests, k) ==
  IF k = 0 THEN [unnormed_a_i |-> buf, cout |-> <<>>]
  ELSE AfterLine(Score(c, T, m, buf, tests, k - 1),
                 ScoreLine(c, T, m, Score(c, T, m, buf, tests, k - 1).unnormed_a_i,
                           tests[k]))

(***************************************************************************)
(* The parameter dump.                                                     *)
(***************************************************************************)
\* max_p of a source word: the scan of its entries, from -1
RECURSIVE MaxP(_, _, _)
MaxP(T, keys, max_p) ==
  IF keys = {} THEN max_p
  ELSE LET k == CHOOSE x \in keys : TRUE
       IN  MaxP(T, keys \ {k}, IF Gt(T[k], max_p) THEN T[k] ELSE max_p)

\* the beam test alone, without the Viterbi set
DumpedBeamOnly(c, T, vit, k) ==
  Gt(T[k], Mul(MaxP(T, Cpd(T, k[1]), Neg(One)), BEAM_THRESHOLD(c)))

\* whether the entry <<e, f>> of the table is written
Dumped(c, T, vit, k) ==
  \/ Gt(T[k], Mul(MaxP(T, Cpd(T, k[1]), Neg(One)), BEAM_THRESHOLD(c)))
  \/ k \in vit

\* the lines "e f log(T[e][f])"; logp holds the number whose log is written
ParamLine(T, k) == <<[t |-> "param", e |-> k[1], f |-> k[2], logp |-> T[k]]>>

RECURSIVE DumpFrom(_, _, _, _, _)
DumpFrom(c, T, vit, ei, fi) ==
  IF ei > Len(WordOrder) THEN <<>>
  ELSE IF fi > Len(WordOrder) THEN DumpFrom(c, T, vit, ei + 1, 1)
  ELSE LET k == <<WordOrder[ei], WordOrder[fi]>>
       IN  (IF k \in DOMAIN T /\ Dumped(c, T, vit, k) THEN <<ParamLine(T, k)>> ELSE <<>>)
           \o DumpFrom(c, T, vit, ei, fi + 1)

Dump(c, T, vit) == DumpFrom(c, T, vit, 1, 1)

(***************************************************************************)
(* The program: main() as a state machine.                                 *)
(***************************************************************************)
VARIABLES
  conf,                   \* the command line
  corpus,                 \* the lines of the input file
  testset,                \* the lines of the test set file, <<>> until it is read
  pc,                     \* where main is: "main", "for", "while", "trained", "scored", "exit"
  iter,                   \* the for loop's counter
  lc,                     \* lines read in this iteration
  ttable,                 \* s2t.ttable
  counts,                 \* s2t.counts
  s2t_viterbi,            \* the pairs <<e, f>> set to 1.0
  tot_len_ratio,
  mean_srclen_multiplier,
  unnormed_a_i,
  likelihood,             \* the bag of numbers whose logs add up to it
  denom,
  cout,                   \* the lines written to standard output
  cerr,                   \* the messages written to standard error
  returned,               \* <<>> while main runs, then <<its return value>>
  calls                   \* the normalizations called on s2t so far

vars == <<conf, corpus, testset, pc, iter, lc, ttable, counts, s2t_viterbi, tot_len_ratio,
          mean_srclen_multiplier, unnormed_a_i, likelihood, denom, cout, cerr,
          returned, calls>>

Init ==
  /\ conf \in CommandLines
  /\ corpus \in Corpora
  /\ testset = <<>>
  /\ pc = "main"
  /\ iter = 0
  /\ lc = 0
  /\ ttable = EmptyTable
  /\ counts = EmptyTable
  /\ s2t_viterbi = {}
  /\ tot_len_ratio = Zero
  /\ mean_srclen_multiplier = Zero
  /\ unnormed_a_i = <<>>
  /\ likelihood = EmptyBag
  /\ denom = 0
  /\ cout = <<>>
  /\ cerr = <<>>
  /\ returned = <<>>
  /\ calls = <<>>

\* main up to the for loop: the options are read and alpha is checked
Startup ==
  /\ pc = "main"
  /\ IF conf.variational_bayes /\ ~Gt(conf.alpha, Zero)
     THEN /\ cerr' = Append(cerr, [msg |-> "--alpha must be > 0"])
          /\ returned' = <<1>>
          /\ pc' = "exit"
     ELSE /\ pc' = "for"
          /\ UNCHANGED <<cerr, returned>>
  /\ UNCHANGED <<conf, corpus, testset, iter, lc, ttable, counts, s2t_viterbi, tot_len_ratio,
                 mean_srclen_multiplier, unnormed_a_i, likelihood, denom, cout, calls>>

\* the test of the for loop and the head of its body: the file is reopened
ForLoop ==
  /\ pc = "for"
  /\ IF iter < ITERATIONS(conf)
     THEN /\ cerr' = Append(cerr, [msg |-> "ITERATION", n |-> iter + 1,
                                   final |-> (iter = ITERATIONS(conf) - 1)])
          /\ likelihood' = EmptyBag
          /\ denom' = 0
          /\ lc' = 0
          /\ pc' = "while"
     ELSE /\ pc' = "trained"
          /\ UNCHANGED <<cerr, likelihood, denom, lc>>
  /\ UNCHANGED <<conf, corpus, testset, iter, ttable, counts, s2t_viterbi, tot_len_ratio,
                 mean_srclen_multiplier, unnormed_a_i, cout, returned, calls>>

\* the variables the body of the while loop changes
Training ==
  [counts |-> counts, s2t_viterbi |-> s2t_viterbi, likelihood |-> likelihood,
   unnormed_a_i |-> unnormed_a_i, tot_len_ratio |-> tot_len_ratio,
   denom |-> denom, cout |-> cout]

Trained(s) ==
  /\ counts' = s.counts
  /\ s2t_viterbi' = s.s2t_viterbi
  /\ likelihood' = s.likelihood
  /\ unnormed_a_i' = s.unnormed_a_i
  /\ tot_len_ratio' = s.tot_len_ratio
  /\ denom' = s.denom
  /\ cout' = s.cout

\* one pass of the while loop: a line is read and trained on, or rejected
NextLine ==
  /\ pc = "while"
  /\ lc < Len(corpus)
  /\ lc' = lc + 1
  /\ IF BadLine(conf, corpus[lc + 1])
     THEN /\ cerr' = Append(cerr, [msg |-> "Error: ", lc |-> lc + 1,
                                   line |-> corpus[lc + 1]])
          /\ returned' = <<1>>
          /\ pc' = "exit"
          /\ UNCHANGED <<counts, s2t_viterbi, likelihood, unnormed_a_i,
                         tot_len_ratio, denom, cout>>
     ELSE /\ Trained(Sentence(conf, ttable, iter, Training, corpus[lc + 1]))
          /\ UNCHANGED <<cerr, returned, pc>>
  /\ UNCHANGED <<conf, corpus, testset, iter, ttable, mean_srclen_multiplier, calls>>

\* the end of the file with a normalization after the final iteration too
EndOfFileNormalizing ==
  /\ pc = "while"
  /\ lc = Len(corpus)
  /\ mean_srclen_multiplier' =
        IF iter = 0 THEN Div(tot_len_ratio, Rat(lc, 1)) ELSE mean_srclen_multiplier
  /\ cerr' = Append(cerr, [msg |-> "  log_e likelihood: ", n |-> iter + 1,
                           log |-> likelihood])
  /\ ttable' = IF conf.variational_bayes
               THEN NormalizeVB(counts, conf.alpha)
               ELSE Normalize(counts)
  /\ counts' = EmptyTable
  /\ calls' = Append(calls, IF conf.variational_bayes THEN "NormalizeVB" ELSE "Normalize")
  /\ iter' = iter + 1
  /\ pc' = "for"
  /\ UNCHANGED <<conf, corpus, testset, lc, s2t_viterbi, tot_len_ratio, unnormed_a_i,
                 likelihood, denom, cout, returned>>

\* the end of the file: the iteration's report and, unless it was the final
\* one, the normalization
EndOfFile ==
  /\ pc = "while"
  /\ lc = Len(corpus)
  /\ LET final_iteration == (iter = ITERATIONS(conf) - 1)
     IN  /\ mean_srclen_multiplier' =
               IF iter = 0 THEN Div(tot_len_ratio, Rat(lc, 1)) ELSE mean_srclen_multiplier
         /\ cerr' = Append(cerr, [msg |-> "  log_e likelihood: ", n |-> iter + 1,
                                  log |-> likelihood])
         /\ IF ~final_iteration
            THEN /\ ttable' = IF conf.variational_bayes
                              THEN NormalizeVB(counts, conf.alpha)
                              ELSE Normalize(counts)
                 /\ counts' = EmptyTable
                 /\ calls' = Append(calls, IF conf.variational_bayes
                                           THEN "NormalizeVB" ELSE "Normalize")
            ELSE UNCHANGED <<ttable, counts, calls>>
  /\ iter' = iter + 1
  /\ pc' = "for"
  /\ UNCHANGED <<conf, corpus, testset, lc, s2t_viterbi, tot_len_ratio, unnormed_a_i,
                 likelihood, denom, cout, returned>>

Last(seq) == seq[Len(seq)]

\* the test set, when one is given
TestSet ==
  /\ pc = "trained"
  /\ \E tests \in TestSets(corpus) :
        /\ testset' = tests
        /\ cout' = cout \o Score(conf, ttable, mean_srclen_multiplier, unnormed_a_i,
                                tests, Len(tests)).cout
        /\ unnormed_a_i' = Score(conf, ttable, mean_srclen_multiplier, unnormed_a_i,
                                 tests, Len(tests)).unnormed_a_i
        /\ cerr' = IF tests = <<>> THEN cerr
                   ELSE Append(cerr, [msg |-> "TOTAL LOG PROB ",
                                      tlp |-> [k \in 1..Len(tests) |->
                                                 Last(cout'[Len(cout) + k])]])
  /\ pc' = "scored"
  /\ UNCHANGED <<conf, corpus, iter, lc, ttable, counts, s2t_viterbi, tot_len_ratio,
                 mean_srclen_multiplier, likelihood, denom, returned, calls>>

\* after training: return, after the parameter dump when parameters are asked
Finish ==
  /\ pc = "scored"
  /\ cout' = IF write_alignments(conf)
             THEN cout
             ELSE cout \o Dump(conf, ttable, s2t_viterbi)
  /\ returned' = <<0>>
  /\ pc' = "exit"
  /\ UNCHANGED <<conf, corpus, testset, iter, lc, ttable, counts, s2t_viterbi, tot_len_ratio,
                 mean_srclen_multiplier, unnormed_a_i, likelihood, denom, cerr, calls>>

Next == Startup \/ ForLoop \/ NextLine \/ EndOfFile \/ TestSet \/ Finish

Spec == Init /\ [][Next]_vars

TypeOK ==
  /\ pc \in {"main", "for", "while", "trained", "scored", "exit"}
  /\ testset \in TestSets(corpus)
  /\ iter \in 0..MaxIter
  /\ lc \in 0..MaxLines
  /\ returned \in {<<>>, <<0>>, <<1>>}

(***************************************************************************)
(* Properties.                                                             *)
(***************************************************************************)
\* a line one of whose sides is empty
EmptySide(line) == line.left = <<>> \/ line.right = <<>>

\* the number of the first line of the corpus with an empty side, 0 if none
FirstEmpty ==
  IF \E k \in 1..Len(corpus) : EmptySide(corpus[k])
  THEN CHOOSE k \in 1..Len(corpus) :
         EmptySide(corpus[k]) /\ \A m \in 1..(k - 1) : ~EmptySide(corpus[m])
  ELSE 0

\* the training state at the head of the first iteration
FreshTraining ==
  [counts |-> EmptyTable, s2t_viterbi |-> {}, likelihood |-> EmptyBag,
   unnormed_a_i |-> <<>>, tot_len_ratio |-> Zero, denom |-> 0, cout |-> <<>>]

\* the training state after lines 1 .. k of an iteration that began in s
RECURSIVE TrainedOn(_, _, _, _, _, _)
TrainedOn(c, T, it, s, corp, k) ==
  IF k = 0 THEN s
  ELSE Sentence(c, T, it, TrainedOn(c, T, it, s, corp, k - 1), corp[k])

\* the run was stopped by a line with an empty side
Aborted == pc = "exit" /\ returned = <<1>> /\ cerr # <<>> /\ Last(cerr).msg = "Error: "

\* C1: the first line with an empty side stops the run at once: main returns 1,
\* the last message on standard error carries that line's number and text, no
\* later line is read, what training has accumulated is what the lines before
\* it gave, and no normalization or further iteration follows.
C1_EmptySideAborts ==
  FirstEmpty > 0 =>
     /\ iter = 0
     /\ calls = <<>>
     /\ ttable = EmptyTable
     /\ pc # "trained"
     /\ returned # <<0>>
     /\ lc <= FirstEmpty
     /\ pc = "while" => (lc < FirstEmpty /\ returned = <<>>)
     /\ lc = FirstEmpty =>
          /\ Aborted
          /\ Last(cerr) = [msg |-> "Error: ", lc |-> FirstEmpty, line |-> corpus[FirstEmpty]]
          /\ Training = TrainedOn(conf, EmptyTable, 0, FreshTraining, corpus, FirstEmpty - 1)

\* the run stopped on its second line, after training on the first
C1_Witness == Aborted /\ lc = 2 /\ FirstEmpty = 2 /\ denom > 0

\* the alignment token "i-j"
Tok(i, j) == [t |-> "i-j", i |-> i, j |-> j]

\* main returned 0 after writing the training alignments
WroteAlignments ==
  pc = "exit" /\ returned = <<0>> /\ write_alignments(conf)
  /\ ~conf.hide_training_alignments

InSeq(x, seq) == \E k \in 1..Len(seq) : seq[k] = x

\* scenario S1: "a b ||| x y", "b ||| y", two iterations, uniform prior, NULL word
S1 ==
  /\ corpus = <<Line(<<"a", "b">>, <<"x", "y">>), Line(<<"b">>, <<"y">>)>>
  /\ conf.iterations = 2 /\ ~conf.favor_diagonal /\ ~conf.no_null_word /\ ~conf.reverse

\* C2 as claimed: in scenario S1 the table after iteration 1 has
\* T[b][y] > T[a][y], the first pair's alignment line holds the token 1-1, and
\* mean_srclen_multiplier is 1.
C2_AsClaimed ==
  S1 =>
    /\ (pc = "while" /\ iter = 1) => Gt(ttable[<<"b", "y">>], ttable[<<"a", "y">>])
    /\ WroteAlignments => InSeq(Tok(1, 1), cout[1])
    /\ iter >= 1 => mean_srclen_multiplier = One

\* C2, amended: in scenario S1 the table after iteration 1 has
\* T[b][y] > T[a][y] and T[<eps>][y] = T[b][y]; NULL, the first candidate, keeps
\* y, so the first pair's alignment line is exactly "0-0"; and
\* mean_srclen_multiplier is 1.
C2_S1 ==
  S1 =>
    /\ (pc = "while" /\ iter = 1) =>
          /\ Gt(ttable[<<"b", "y">>], ttable[<<"a", "y">>])
          /\ ttable[<<kNULL, "y">>] = ttable[<<"b", "y">>]
    /\ WroteAlignments => cout[1] = <<Tok(0, 0)>>
    /\ iter >= 1 => mean_srclen_multiplier = One

C2_Witness == S1 /\ WroteAlignments /\ Len(cout) = 2

\* scenario S5: reverse mode on "a b ||| x", one iteration
S5 ==
  /\ corpus = <<Line(<<"a", "b">>, <<"x">>)>>
  /\ conf.iterations = 1 /\ conf.reverse

\* C3 as claimed: in scenario S5 the alignment line holds the token 0-1.
C3_AsClaimed == (S5 /\ WroteAlignments) => InSeq(Tok(0, 1), cout[1])

\* C3, amended: in scenario S5 the tokens of the alignment line are j-i, the
\* index into the left side "a b" first, so they are among 0-0 and 1-0 and
\* never 0-1; without the NULL word the line is exactly "0-0 1-0", and with it
\* and the uniform prior the line is empty (every candidate ties with NULL at
\* the floor).
C3_S5 ==
  (S5 /\ WroteAlignments) =>
    /\ \A k \in 1..Len(cout[1]) : cout[1][k] \in {Tok(0, 0), Tok(1, 0), Space}
    /\ conf.no_null_word => cout[1] = <<Tok(0, 0), Space, Tok(1, 0)>>
    /\ (~conf.no_null_word /\ ~conf.favor_diagonal) => cout[1] = <<>>

C3_Witness == S5 /\ WroteAlignments /\ conf.no_null_word /\ Len(cout[1]) = 3

\* main returned 0 after the parameter dump
WroteParameters == pc = "exit" /\ returned = <<0>> /\ conf.output_parameters

Words == {WordOrder[k] : k \in 1..Len(WordOrder)} \cup {WordID0}

\* the lines of standard output that the training loop wrote, those the test
\* set gave and those of the parameter dump
TestLine(l) == l # <<>> /\ l[1].t = "test"
ParamLines == SelectSeq(cout, LAMBDA l : l # <<>> /\ l[1].t = "param")
TestLines == SelectSeq(cout, TestLine)
TrainingLines == SelectSeq(cout, LAMBDA l : l = <<>> \/ l[1].t \in {"i-j", " "})

\* the dump holds a line for the pair <<e, f>>
InDump(e, f) ==
  \E k \in 1..Len(cout) :
     /\ Len(cout[k]) = 1
     /\ cout[k][1].t = "param"
     /\ cout[k][1].e = e
     /\ cout[k][1].f = f

InTable(e, f) == <<e, f>> \in DOMAIN ttable

\* the largest values T[e][f'] of the source word e
RowMaxima(e) ==
  {ttable[k] : k \in {x \in Cpd(ttable, e) :
                        \A y \in Cpd(ttable, e) : ~Gt(ttable[y], ttable[x])}}

\* T[e][f] > (max over f' of T[e][f']) * 10^beam_threshold
AboveBeam(e, f) ==
  /\ InTable(e, f)
  /\ \E m \in RowMaxima(e) : Gt(ttable[<<e, f>>], Mul(m, Pow10(conf.beam_threshold)))

\* C4 as claimed: with output_parameters and Viterbi points added, for every
\* K >= 1 the dump holds a line for (e, f) iff T[e][f] is above the beam or
\* (e, f) is in the Viterbi set.
C4_AsClaimed ==
  (WroteParameters /\ ~conf.no_add_viterbi) =>
     \A e \in Words, f \in Words :
        InDump(e, f) <=> (AboveBeam(e, f) \/ <<e, f>> \in s2t_viterbi)

\* C4, amended: with output_parameters and Viterbi points added, the dump
\* holds a line for (e, f) iff (e, f) is an entry of the table and T[e][f] is
\* above the beam or (e, f) is in the Viterbi set; with K = 1 the table is
\* empty and so is the dump, whatever the Viterbi set holds; with K >= 2 every
\* Viterbi pair of a source word or of NULL is in the dump.
C4_PruningFaithful ==
  (WroteParameters /\ ~conf.no_add_viterbi) =>
     /\ \A e \in Words, f \in Words :
           InDump(e, f) <=>
             (InTable(e, f) /\ (AboveBeam(e, f) \/ <<e, f>> \in s2t_viterbi))
     /\ conf.iterations = 1 => (ParamLines = <<>> /\ s2t_viterbi # {})
     /\ conf.iterations >= 2 =>
           \A k \in s2t_viterbi : k[1] # WordID0 => InDump(k[1], k[2])

\* a Viterbi pair under the beam is in the dump
C4_Witness ==
  /\ WroteParameters /\ ~conf.no_add_viterbi /\ conf.iterations >= 2
  /\ \E k \in s2t_viterbi : ~AboveBeam(k[1], k[2]) /\ InDump(k[1], k[2])

\* the corpus with the two sides of every line exchanged
Swapped(corp) == [k \in 1..Len(corp) |-> Line(corp[k].right, corp[k].left)]

\* the alignment lines with the two indices of every token exchanged
Exchanged(lines) ==
  [k \in 1..Len(lines) |->
     [m \in 1..Len(lines[k]) |->
        IF lines[k][m].t = "i-j" THEN Tok(lines[k][m].j, lines[k][m].i)
        ELSE lines[k][m]]]

\* the training state at the head of an iteration: likelihood and denom reset
IterationStart(s) == [s EXCEPT !.likelihood = EmptyBag, !.denom = 0]

\* the table and the training state an iteration leaves, given those at its head
IterationEnd(c, T, s, final_iteration) ==
  IF final_iteration THEN [T |-> T, s |-> s]
  ELSE [T |-> IF c.variational_bayes THEN NormalizeVB(s.counts, c.alpha)
              ELSE Normalize(s.counts),
        s |-> [s EXCEPT !.counts = EmptyTable]]

\* the table and the training state at the head of iteration it (from 0) of
\* the run of configuration c on corpus corp
RECURSIVE RunTo(_, _, _)
RunTo(c, corp, it) ==
  IF it = 0 THEN [T |-> EmptyTable, s |-> FreshTraining]
  ELSE IterationEnd(c, RunTo(c, corp, it - 1).T,
                    TrainedOn(c, RunTo(c, corp, it - 1).T, it - 1,
                              IterationStart(RunTo(c, corp, it - 1).s),
                              corp, Len(corp)),
                    it - 1 = ITERATIONS(c) - 1)

\* the training state of that run after k lines of iteration it
RunToLine(c, corp, it, k) ==
  TrainedOn(c, RunTo(c, corp, it).T, it, IterationStart(RunTo(c, corp, it).s), corp, k)

Forward(c) == [c EXCEPT !.reverse = FALSE]

\* C5: at every point of a run with reverse, the table, the likelihood and
\* the other training state are those of the run without reverse on the corpus
\* with its sides swapped, and the alignment lines are that run's with the two
\* indices of every token exchanged.
C5_ReverseRoundTrip ==
  (conf.reverse /\ pc = "while") =>
     /\ ttable = RunTo(Forward(conf), Swapped(corpus), iter).T
     /\ [Training EXCEPT !.cout = Exchanged(@)]
          = RunToLine(Forward(conf), Swapped(corpus), iter, lc)

\* a reverse run that wrote an alignment line with a token after a second
\* iteration on a line with sides of different lengths
C5_Witness ==
  /\ conf.reverse /\ pc = "while" /\ iter >= 1 /\ lc = Len(corpus)
  /\ \E k \in 1..Len(cout) : cout[k] # <<>> /\ Len(corpus[k].left) # Len(corpus[k].right)

Min(a, b) == IF a < b THEN a ELSE b

\* the numbers of the ITERATION messages on standard error
IterationsAnnounced ==
  [k \in 1..Len(SelectSeq(cerr, LAMBDA m : m.msg = "ITERATION")) |->
     SelectSeq(cerr, LAMBDA m : m.msg = "ITERATION")[k].n]

\* C6: iterations 1, 2, ... are begun in sequence, each after the one before
\* was ended; after k ended iterations normalize (normalize_vb with
\* variational Bayes) has been called min(k, K - 1) times; and throughout
\* iteration k the table the E-step reads is the one the normalization at the
\* end of iteration k - 1 produced (empty in iteration 1, where prob gives the
\* floor), whatever has been incremented since.
C6_Normalizations ==
  /\ Len(calls) = Min(iter, ITERATIONS(conf) - 1)
  /\ \A k \in 1..Len(calls) :
        calls[k] = IF conf.variational_bayes THEN "NormalizeVB" ELSE "Normalize"
  /\ \A k \in 1..Len(IterationsAnnounced) : IterationsAnnounced[k] = k
  /\ Len(IterationsAnnounced) \in {iter, iter + 1}
  /\ pc = "while" => Len(IterationsAnnounced) = iter + 1
  /\ pc \in {"for", "trained"} => Len(IterationsAnnounced) = iter
  /\ iter = 0 => ttable = EmptyTable
  /\ pc = "while" =>
        /\ ttable = RunTo(conf, corpus, iter).T
        /\ Training = RunToLine(conf, corpus, iter, lc)

\* a run of three iterations ended after two normalizations, with counts
\* left from the final iteration
C6_Witness ==
  /\ pc = "trained" /\ ITERATIONS(conf) = 3 /\ Len(calls) = 2
  /\ ttable # EmptyTable

\* the target position of a token once the sides are swapped
TargetPosition(tok) == IF conf.reverse THEN tok.i ELSE tok.j

SourcePosition(tok) == IF conf.reverse THEN tok.j ELSE tok.i

\* tokens separated by single spaces, in strictly increasing order of the
\* target position, with positions inside the two sides
AlignmentLine(text, src, trg) ==
  /\ text # <<>> => Len(text) % 2 = 1
  /\ \A m \in 1..Len(text) :
        IF m % 2 = 0 THEN text[m] = Space
        ELSE /\ text[m].t = "i-j"
             /\ TargetPosition(text[m]) \in 0..(Len(trg) - 1)
             /\ SourcePosition(text[m]) \in 0..(Len(src) - 1)
             /\ m > 2 => TargetPosition(text[m - 2]) < TargetPosition(text[m])

\* C7: when alignments are written, nothing is written before the final
\* iteration; in the final iteration standard output holds one line for each
\* corpus line read so far, in corpus order; a run that succeeds has written
\* one line per corpus line, all of them before what a test set adds; and
\* within a line the tokens are separated by single spaces and their target
\* positions strictly increase.
C7_AlignmentOutput ==
  (write_alignments(conf) /\ ~conf.hide_training_alignments) =>
     /\ iter < ITERATIONS(conf) - 1 => cout = <<>>
     /\ (pc = "while" /\ iter = ITERATIONS(conf) - 1) => Len(cout) = lc
     /\ (pc = "exit" /\ returned = <<0>>) => Len(TrainingLines) = Len(corpus)
     /\ Len(TrainingLines) <= Len(corpus)
     /\ cout = TrainingLines \o TestLines
     /\ \A k \in 1..Len(TrainingLines) :
           AlignmentLine(cout[k], Sides(conf, corpus[k]).src, Sides(conf, corpus[k]).trg)

\* a run that wrote two lines, one of them with two tokens
C7_Witness ==
  /\ WroteAlignments /\ Len(cout) = 2
  /\ \E k \in 1..2 : Len(cout[k]) = 3

\* C8 as claimed: no sum that is not positive has its log added to the
\* likelihood: the run aborts on a sum of 0, and other sums are positive.
C8_AsClaimed == \A v \in BagToSet(likelihood) : Gt(v, Zero)

\* C9 as claimed: with favor_diagonal, diagonal_tension = 0 and no NULL word
\* (prob_align_null left at its default), the prior of every source position
\* of the line just trained on is 1/I.
C9_AsClaimed ==
  (conf.favor_diagonal /\ conf.diagonal_tension = Zero /\ conf.no_null_word
     /\ conf.prob_align_null = Rat(2, 25) /\ pc = "while" /\ lc >= 1) =>
     \A i \in 1..Len(Sides(conf, corpus[lc]).src) :
        ProbA(conf, unnormed_a_i, Len(Sides(conf, corpus[lc]).src), i)
          = Rat(1, Len(Sides(conf, corpus[lc]).src))

\* C10 as claimed: with beam_threshold = 0 the dump holds every entry that
\* equals its source word's maximum, and every other line of the dump is a
\* pair of the Viterbi set.
C10_AsClaimed ==
  (WroteParameters /\ conf.beam_threshold = 0) =>
     \A e \in Words, f \in Words :
        /\ (InTable(e, f) /\ ttable[<<e, f>>] \in RowMaxima(e)) => InDump(e, f)
        /\ (InDump(e, f) /\ ttable[<<e, f>>] \notin RowMaxima(e)) =>
              <<e, f>> \in s2t_viterbi

\* the counts and the likelihood are those of the training state s
SameUpdates(s) == counts = s.counts /\ likelihood = s.likelihood

\* C11: when the two lines of a corpus have been trained on in an iteration
\* that is not the final one, the expected counts and the likelihood are those
\* that training on the same two lines in the other order gives, from the same
\* table and the same state at the head of the iteration.
C11_OrderIndependent ==
  (pc = "while" /\ Len(corpus) = 2 /\ lc = 2 /\ iter < ITERATIONS(conf) - 1) =>
     SameUpdates(TrainedOn(conf, ttable, iter,
                           IterationStart(RunTo(conf, corpus, iter).s),
                           <<corpus[2], corpus[1]>>, 2))

\* with the diagonal prior, a line of source length 2 was trained on before a
\* line of source length 1 in the first iteration, the buffer empty at its head
C11_Witness ==
  /\ pc = "while" /\ Len(corpus) = 2 /\ lc = 2 /\ iter = 0 /\ ITERATIONS(conf) > 1
  /\ conf.favor_diagonal /\ conf.prob_align_null = Rat(2, 25)
  /\ counts # EmptyTable /\ Len(unnormed_a_i) = 2
  /\ Len(Sides(conf, corpus[1]).src) = 2 /\ Len(Sides(conf, corpus[2]).src) = 1

\* probs at the zero-based target position j of the pair src, trg under table T
ProbsAt(c, T, src, trg, j) ==
  Probs(c, T,
        IF c.favor_diagonal
        THEN DiagonalWeights(c, Resize(<<>>, Len(src)), Len(src), j, Len(trg))
        ELSE <<>>,
        src, trg[j + 1])

\* the pair (argmax source word, target word) of that position
ViterbiPair(c, T, src, trg, j) ==
  <<Viterbi(c, ProbsAt(c, T, src, trg, j), src).max_i, trg[j + 1]>>

\* the pairs of every target position of the lines 1 .. k of the corpus
ViterbiPoints(c, T, corp, k) ==
  UNION { { ViterbiPair(c, T, Sides(c, corp[m]).src, Sides(c, corp[m]).trg, j) :
              j \in 0..(Len(Sides(c, corp[m]).trg) - 1) } : m \in 1..k }

\* training went through its final iteration
TrainingDone == pc \in {"trained", "scored"} \/ (pc = "exit" /\ returned = <<0>>)

\* C12 as claimed: the Viterbi set is empty before the final iteration, holds
\* the pair of every target position read so far during it, whatever the
\* options, and is that of the whole corpus afterwards.
C12_AsClaimed ==
  /\ iter < ITERATIONS(conf) - 1 => s2t_viterbi = {}
  /\ (pc = "while" /\ iter = ITERATIONS(conf) - 1) =>
        s2t_viterbi = ViterbiPoints(conf, ttable, corpus, lc)
  /\ TrainingDone => s2t_viterbi = ViterbiPoints(conf, ttable, corpus, Len(corpus))

\* C12, amended: the Viterbi set is empty before the final iteration; during
\* it the set holds the pair of every target position read so far when
\* no_add_viterbi is off or alignments are written (output_parameters off),
\* whatever hide_training_alignments is, and stays empty when no_add_viterbi
\* and output_parameters are both set; it does not change afterwards; and a
\* dump with no_add_viterbi holds exactly the entries above the beam.
C12_ViterbiSet ==
  /\ iter < ITERATIONS(conf) - 1 => s2t_viterbi = {}
  /\ (pc = "while" /\ iter = ITERATIONS(conf) - 1) =>
        s2t_viterbi = IF add_viterbi(conf) \/ write_alignments(conf)
                      THEN ViterbiPoints(conf, ttable, corpus, lc)
                      ELSE {}
  /\ TrainingDone =>
        s2t_viterbi = IF add_viterbi(conf) \/ write_alignments(conf)
                      THEN ViterbiPoints(conf, ttable, corpus, Len(corpus))
                      ELSE {}
  /\ (WroteParameters /\ conf.no_add_viterbi) =>
        \A e \in Words, f \in Words : InDump(e, f) <=> AboveBeam(e, f)

\* alignments hidden and no_add_viterbi set, and yet the set was populated
C12_Witness ==
  /\ TrainingDone /\ conf.no_add_viterbi /\ conf.hide_training_alignments
  /\ write_alignments(conf) /\ Cardinality(s2t_viterbi) >= 2

\* the indices the argmax chooses among: 0 is NULL
Candidates(c, srclen) == IF use_null(c) THEN 0..srclen ELSE 1..srclen

\* the lowest index among the candidates of maximal probs value
LowestMax(c, probs, srclen) ==
  CHOOSE i \in Candidates(c, srclen) :
     /\ \A k \in Candidates(c, srclen) : ~Gt(probs[k], probs[i])
     /\ \A k \in Candidates(c, srclen) :
           (\A n \in Candidates(c, srclen) : ~Gt(probs[n], probs[k])) => i <= k

\* the tokens of a sentence pair whose every target position is aligned to
\* the lowest index of maximal probs value, and left out when that is NULL
LowestMaxTokens(c, T, src, trg) ==
  { Token(c, LowestMax(c, ProbsAt(c, T, src, trg, j), Len(src)), j) :
      j \in { n \in 0..(Len(trg) - 1) :
                LowestMax(c, ProbsAt(c, T, src, trg, n), Len(src)) > 0 } }

TokensOf(text) == { text[m] : m \in { n \in 1..Len(text) : text[n].t = "i-j" } }

\* C13 as claimed: in the alignment lines of the final iteration and in those
\* of the test set, every target position is aligned to the lowest index among
\* the candidates of maximal probs value, NULL being index 0.
C13_AsClaimed ==
  write_alignments(conf) =>
     /\ ~conf.hide_training_alignments =>
          \A m \in 1..Len(TrainingLines) :
             TokensOf(cout[m]) =
               LowestMaxTokens(conf, ttable, Sides(conf, corpus[m]).src,
                               Sides(conf, corpus[m]).trg)
     /\ \A m \in 1..Len(TestLines) :
           TokensOf(TestLines[m]) =
             LowestMaxTokens(conf, ttable, Sides(conf, testset[m]).src,
                             Sides(conf, testset[m]).trg)

\* the table the normalization after iteration K - 1 produced: none with K = 1
LastNormalized == RunTo(conf, corpus, ITERATIONS(conf) - 1).T

\* C14: from the beginning of the final iteration on, nothing has been
\* incremented and the table is the one the normalization after iteration
\* K - 1 produced, after K - 1 normalizations in all; the lines of the test set
\* (scored from an empty scratch buffer) and of the parameter dump are those
\* that same table gives; and with iterations = 1 the table is empty and the
\* dump has no line.
C14_FinalIterationFrame ==
  /\ ((pc = "while" /\ iter = ITERATIONS(conf) - 1) \/ TrainingDone) =>
        /\ counts = EmptyTable
        /\ ttable = LastNormalized
        /\ Len(calls) = ITERATIONS(conf) - 1
        /\ ITERATIONS(conf) = 1 => ttable = EmptyTable
  /\ (pc = "scored" \/ (pc = "exit" /\ returned = <<0>>)) =>
        TestLines = Score(conf, ttable, mean_srclen_multiplier, <<>>,
                          testset, Len(testset)).cout
  /\ WroteParameters =>
        /\ ParamLines = Dump(conf, ttable, s2t_viterbi)
        /\ ITERATIONS(conf) = 1 => ParamLines = <<>>

\* a run of two iterations or more scored a test set and dumped parameters
C14_Witness ==
  /\ WroteParameters /\ ITERATIONS(conf) >= 2
  /\ TestLines # <<>> /\ ParamLines # <<>> /\ ttable # EmptyTable

\* the target positions of the tokens of an alignment line
AlignedPositions(text) == { TargetPosition(tok) : tok \in TokensOf(text) }

\* C15 as claimed: in every alignment line of training the source and target
\* indices of the tokens lie inside the two sides; without the NULL word the
\* line has one token for every target position 0 .. |trg| - 1, and with it at
\* most |trg| tokens.
C15_AsClaimed ==
  (write_alignments(conf) /\ ~conf.hide_training_alignments) =>
     \A m \in 1..Len(TrainingLines) :
        /\ \A tok \in TokensOf(cout[m]) :
              /\ SourcePosition(tok) \in 0..(Len(Sides(conf, corpus[m]).src) - 1)
              /\ TargetPosition(tok) \in 0..(Len(Sides(conf, corpus[m]).trg) - 1)
        /\ Cardinality(TokensOf(cout[m])) <= Len(Sides(conf, corpus[m]).trg)
        /\ conf.no_null_word =>
              /\ AlignedPositions(cout[m]) = 0..(Len(Sides(conf, corpus[m]).trg) - 1)
              /\ Cardinality(TokensOf(cout[m])) = Len(Sides(conf, corpus[m]).trg)

====
